---- MODULE Spec2Model ----
(***************************************************************************)
(* EmbedViz (src/app.py): the embedding comparison core                    *)
(* (cosine_similarity, euclidean_distance, plot_embeddings) and the        *)
(* "Generate Embeddings" handler of main that drives it.                   *)
(*                                                                         *)
(* Numbers are exact: vectors hold bounded integers, a cosine similarity   *)
(* uv / sqrt(uu * vv) is kept as the pair (uv, uu * vv), a Euclidean       *)
(* distance sqrt(s) as s, and an axis limit as a count of twentieths.      *)
(* Floating-point rounding is outside the model.                           *)
(*                                                                         *)
(* Two specifications:                                                     *)
(*   Spec      main(): repeated presses of the button, lines 150-179.      *)
(*   SpecCore  the three core functions applied to every bounded pair of   *)
(*             vectors, mismatched and empty ones included.                *)
(***************************************************************************)
EXTENDS Integers, Sequences, FiniteSets

VARIABLES embedding1, embedding2, pc, fig, openFigs, plotOut, cos_sim,
          euc_dist, displayed, called

vars == <<embedding1, embedding2, pc, fig, openFigs, plotOut, cos_sim,
          euc_dist, displayed, called>>

(***************************************************************************)
(* Bounds                                                                  *)
(***************************************************************************)
MaxLen == 2

MaxVal == 2

MaxMainVal == 1

MaxOpenFigs == 2

Vals == -1 .. MaxVal

MainVals == 0 .. MaxMainVal

SeqsUpTo(S, n) == UNION {[1 .. k -> S] : k \in 0 .. n}

Vectors == SeqsUpTo(Vals, MaxLen)

MainVectors == SeqsUpTo(MainVals, MaxLen)

(***************************************************************************)
(* Values                                                                  *)
(***************************************************************************)
\* A Python value bound to embedding1 / embedding2: None, a list of numbers,
\* or a scalar (a JSON number or boolean, which get_embedding hands back as
\* it finds it under 'embedding'). Unbound: the name is not assigned yet.
\* Other JSON values (strings, objects, nested lists) are not modelled.
Unbound == [type |-> "unbound", vec |-> <<>>, num |-> 0]

None == [type |-> "NoneType", vec |-> <<>>, num |-> 0]

List(v) == [type |-> "list", vec |-> v, num |-> 0]

Scalar(x) == [type |-> "scalar", vec |-> <<>>, num |-> x]

\* Python truthiness of `embedding1 and embedding2` (line 155): None, the
\* empty list and 0 are falsy; every other list and scalar is truthy.
Truthy(e) ==
    \/ e.type = "list" /\ Len(e.vec) > 0
    \/ e.type = "scalar" /\ e.num # 0

\* Outcomes of a call: not called yet, a returned value, a raised exception.
Uncomputed == [kind |-> "uncomputed", exc |-> "", form |-> "", n |-> 0, d2 |-> 0]

Raise(e) == [kind |-> "raise", exc |-> e, form |-> "", n |-> 0, d2 |-> 0]

\* A returned float, in one of the exact forms
\*   "n/sqrt(d2)", "1-n/sqrt(d2)", "sqrt(n)", "nan".
Value(f, a, b) == [kind |-> "value", exc |-> "", form |-> f, n |-> a, d2 |-> b]

NaN == Value("nan", 0, 0)

RECURSIVE SumTo(_, _)
SumTo(f, k) == IF k = 0 THEN 0 ELSE f[k] + SumTo(f, k - 1)

Abs(x) == IF x < 0 THEN -x ELSE x

(***************************************************************************)
(* numpy / scipy as the two metrics use them                               *)
(***************************************************************************)
\* np.dot of two 1-D arrays: defined for equal lengths only.
dot(u, v) == SumTo([i \in 1 .. Len(u) |-> u[i] * v[i]], Len(u))

\* A broadcasting rule that stretches the second operand only.
Broadcastable_second_only(u, v) == Len(u) = Len(v) \/ Len(v) = 1

\* numpy broadcasting of two 1-D shapes in `u - v`: the lengths are equal or
\* one of them is 1.
Broadcastable(u, v) == Len(u) = Len(v) \/ Len(u) = 1 \/ Len(v) = 1

BroadcastLen(u, v) == IF Len(u) = 1 THEN Len(v) ELSE Len(u)

At(u, i) == IF Len(u) = 1 THEN u[1] ELSE u[i]

\* cosine with the norm of u used for both vectors.
cosine_norm_of_u_twice(u, v) ==
    IF Len(u) # Len(v) THEN Raise("ValueError")
    ELSE IF dot(u, u) * dot(v, v) = 0 THEN NaN
    ELSE Value("1-n/sqrt(d2)", dot(u, v), dot(u, u) * dot(u, u))

\* scipy.spatial.distance.cosine(u, v): 1 - dot(u, v) / sqrt(dot(u, u) * dot(v, v)).
\* np.dot raises ValueError on unequal lengths; a zero denominator gives
\* 0/0 = nan in float64 (a RuntimeWarning, no exception). scipy clips the
\* distance to [0, 2], which in exact arithmetic changes nothing.
cosine(u, v) ==
    IF Len(u) # Len(v) THEN Raise("ValueError")
    ELSE IF dot(u, u) * dot(v, v) = 0 THEN NaN
    ELSE Value("1-n/sqrt(d2)", dot(u, v), dot(u, u) * dot(v, v))

\* euclidean with the differences summed without being squared.
euclidean_unsquared(u, v) ==
    IF ~Broadcastable(u, v) THEN Raise("ValueError")
    ELSE Value("sqrt(n)",
               SumTo([i \in 1 .. BroadcastLen(u, v) |-> At(u, i) - At(v, i)],
                     BroadcastLen(u, v)),
               1)

\* scipy.spatial.distance.euclidean(u, v): norm(u - v), with u - v broadcast.
euclidean(u, v) ==
    IF ~Broadcastable(u, v) THEN Raise("ValueError")
    ELSE Value("sqrt(n)",
               SumTo([i \in 1 .. BroadcastLen(u, v) |->
                        (At(u, i) - At(v, i)) * (At(u, i) - At(v, i))],
                     BroadcastLen(u, v)),
               1)

\* Python `1 - x` on a float: an exception of x propagates, nan stays nan.
OneMinus(x) ==
    IF x.kind # "value" THEN x
    ELSE IF x.form = "1-n/sqrt(d2)" THEN Value("n/sqrt(d2)", x.n, x.d2)
    ELSE x

cosine_similarity(e1, e2) == OneMinus(cosine(e1, e2))

euclidean_distance(e1, e2) == euclidean(e1, e2)

(***************************************************************************)
(* State                                                                   *)
(***************************************************************************)
NoFig == [created |-> FALSE, ax1 |-> <<>>, ax1_legend |-> FALSE,
          ax2_points |-> <<>>, ax2_aspect |-> "auto",
          xlim |-> <<>>, ylim |-> <<>>, ax2_lines |-> <<>>]

Fresh ==
    /\ fig = NoFig
    /\ plotOut = Uncomputed
    /\ cos_sim = Uncomputed
    /\ euc_dist = Uncomputed
    /\ displayed = <<>>
    /\ called = <<>>

Init ==
    /\ embedding1 = Unbound
    /\ embedding2 = Unbound
    /\ pc = "idle"
    /\ openFigs = 0
    /\ Fresh

(***************************************************************************)
(* plot_embedding and plot_embeddings, one action per statement group      *)
(***************************************************************************)
\* plot_embedding(ax, embedding, color, label), lines 60-65: a line over
\* x = range(len(embedding)), a marker set, and one vlines call per dimension.
RECURSIVE Vlines(_, _, _)
Vlines(embedding, color, k) ==
    IF k = 0 THEN <<>>
    ELSE Append(Vlines(embedding, color, k - 1),
                [artist |-> "vlines", color |-> color,
                 data |-> <<k - 1, 0, embedding[k]>>])

plot_embedding(ax, embedding, color) ==
    ax \o <<[artist |-> "plot", color |-> color, data |-> embedding],
            [artist |-> "scatter", color |-> color, data |-> embedding]>>
       \o Vlines(embedding, color, Len(embedding))

\* Python min / max over a non-empty list.
Min(v) == CHOOSE x \in {v[i] : i \in 1 .. Len(v)} :
              \A j \in 1 .. Len(v) : x <= v[j]

Max(v) == CHOOSE x \in {v[i] : i \in 1 .. Len(v)} :
              \A j \in 1 .. Len(v) : x >= v[j]

Smaller(a, b) == IF a <= b THEN a ELSE b

Larger(a, b) == IF a >= b THEN a ELSE b

\* min_val taken over the first list alone.
min_val_first_only(e1, e2) == Min(e1)

\* max_val / min_val of lines 88-89 (both lists non-empty).
max_val(e1, e2) == Larger(Max(e1), Max(e2))

min_val(e1, e2) == Smaller(Min(e1), Min(e2))

\* Axis limits are kept in units of 1 / LimScale, the expander 0.05 of
\* matplotlib's Locator.nonsingular, which set_xlim / set_ylim apply.
LimScale == 20

\* set_xlim(vmin, vmax) with vmin <= vmax: the limits as given, except that an
\* empty interval is widened by 5% of its magnitude (by 0.05 around zero).
nonsingular(vmin, vmax) ==
    IF vmin # vmax THEN <<LimScale * vmin, LimScale * vmax>>
    ELSE IF vmin = 0 THEN <<-1, 1>>
    ELSE <<LimScale * vmin - Abs(vmin), LimScale * vmax + Abs(vmax)>>

\* Line 68: plt.subplots creates the figure and registers it with pyplot.
Subplots ==
    /\ pc = "subplots"
    /\ called' = Append(called, "plot_embeddings")
    /\ fig' = [NoFig EXCEPT !.created = TRUE]
    /\ openFigs' = openFigs + 1
    /\ pc' = "panelA1"
    /\ UNCHANGED <<embedding1, embedding2, plotOut, cos_sim, euc_dist, displayed>>

\* Line 71. len() of a scalar (line 61) raises TypeError before anything
\* is drawn by this call; the exception leaves plot_embeddings.
PlotEmbedding1 ==
    /\ pc = "panelA1"
    /\ IF embedding1.type # "list"
       THEN /\ plotOut' = Raise("TypeError")
            /\ pc' = "plot_raised"
            /\ fig' = fig
       ELSE /\ fig' = [fig EXCEPT !.ax1 = plot_embedding(@, embedding1.vec, "blue")]
            /\ pc' = "panelA2"
            /\ plotOut' = plotOut
    /\ UNCHANGED <<embedding1, embedding2, openFigs, cos_sim, euc_dist,
                   displayed, called>>

\* Line 72, likewise.
PlotEmbedding2 ==
    /\ pc = "panelA2"
    /\ IF embedding2.type # "list"
       THEN /\ plotOut' = Raise("TypeError")
            /\ pc' = "plot_raised"
            /\ fig' = fig
       ELSE /\ fig' = [fig EXCEPT !.ax1 = plot_embedding(@, embedding2.vec, "red")]
            /\ pc' = "labelsA"
            /\ plotOut' = plotOut
    /\ UNCHANGED <<embedding1, embedding2, openFigs, cos_sim, euc_dist,
                   displayed, called>>

\* Lines 73-76: axis labels, title and legend of the first panel.
LabelsA ==
    /\ pc = "labelsA"
    /\ fig' = [fig EXCEPT !.ax1_legend = TRUE]
    /\ pc' = "scatter"
    /\ UNCHANGED <<embedding1, embedding2, openFigs, plotOut, cos_sim, euc_dist,
                   displayed, called>>

\* Lines 79-80: ax2.scatter raises ValueError ("x and y must be the same
\* size") when the lengths differ; the exception leaves plot_embeddings.
Scatter ==
    /\ pc = "scatter"
    /\ IF Len(embedding1.vec) # Len(embedding2.vec)
       THEN /\ plotOut' = Raise("ValueError")
            /\ pc' = "plot_raised"
            /\ fig' = fig
       ELSE /\ fig' = [fig EXCEPT !.ax2_points =
                          [i \in 1 .. Len(embedding1.vec) |->
                              <<embedding1.vec[i], embedding2.vec[i]>>]]
            /\ pc' = "labelsB"
            /\ plotOut' = plotOut
    /\ UNCHANGED <<embedding1, embedding2, openFigs, cos_sim, euc_dist,
                   displayed, called>>

\* Lines 82-85: labels, title and the 1:1 aspect of the second panel.
LabelsB ==
    /\ pc = "labelsB"
    /\ fig' = [fig EXCEPT !.ax2_aspect = "equal"]
    /\ pc' = "limits"
    /\ UNCHANGED <<embedding1, embedding2, openFigs, plotOut, cos_sim, euc_dist,
                   displayed, called>>

\* Lines 88-91: max() of an empty list raises ValueError; otherwise both
\* axes get the limits (min_val, max_val).
Limits ==
    /\ pc = "limits"
    /\ IF Len(embedding1.vec) = 0 \/ Len(embedding2.vec) = 0
       THEN /\ plotOut' = Raise("ValueError")
            /\ pc' = "plot_raised"
            /\ fig' = fig
       ELSE /\ fig' = [fig EXCEPT
                  !.xlim = nonsingular(min_val(embedding1.vec, embedding2.vec),
                                       max_val(embedding1.vec, embedding2.vec)),
                  !.ylim = nonsingular(min_val(embedding1.vec, embedding2.vec),
                                       max_val(embedding1.vec, embedding2.vec))]
            /\ pc' = "diagonal"
            /\ plotOut' = plotOut
    /\ UNCHANGED <<embedding1, embedding2, openFigs, cos_sim, euc_dist,
                   displayed, called>>

\* Line 94: the dashed reference line; the limits are fixed by now, so the
\* line does not rescale the axes.
Diagonal ==
    /\ pc = "diagonal"
    /\ fig' = [fig EXCEPT !.ax2_lines =
                  <<[from |-> <<min_val(embedding1.vec, embedding2.vec),
                                min_val(embedding1.vec, embedding2.vec)>>,
                     to   |-> <<max_val(embedding1.vec, embedding2.vec),
                                max_val(embedding1.vec, embedding2.vec)>>]>>]
    /\ pc' = "layout"
    /\ UNCHANGED <<embedding1, embedding2, openFigs, plotOut, cos_sim, euc_dist,
                   displayed, called>>

\* Lines 96-97: tight_layout and return fig. The figure stays registered
\* with pyplot: nothing closes it.
ReturnFig ==
    /\ pc = "layout"
    /\ plotOut' = Value("figure", 0, 0)
    /\ pc' = "plot_returned"
    /\ UNCHANGED <<embedding1, embedding2, fig, openFigs, cos_sim, euc_dist,
                   displayed, called>>

PlotStep ==
    \/ Subplots
    \/ PlotEmbedding1
    \/ PlotEmbedding2
    \/ LabelsA
    \/ Scatter
    \/ LabelsB
    \/ Limits
    \/ Diagonal
    \/ ReturnFig

(***************************************************************************)
(* main: the "Generate Embeddings" handler, lines 150-179                  *)
(***************************************************************************)
\* The answers the embeddings endpoint can give to the POST of lines 31-35:
\*   request_error  no answer, an HTTP error status or a body that is not
\*                  JSON (all RequestException);
\*   no_key         a JSON object without 'embedding';
\*   not_object     a JSON body that is not an object (a list, null, a
\*                  number, a string);
\*   ok             a JSON object with a value under 'embedding'.
EmbeddingJson == {None} \cup {List(v) : v \in MainVectors}
                           \cup {Scalar(x) : x \in MainVals}

Responses ==
    {[status |-> st, value |-> None] :
         st \in {"request_error", "no_key", "not_object"}}
    \cup {[status |-> "ok", value |-> x] : x \in EmbeddingJson}

\* get_embedding(ollama_url, model, text), lines 29-44, on an answer: what
\* it returns or raises, and the st.error calls it makes. Indexing a
\* non-object body raises TypeError, which no except clause catches.
get_embedding(resp) ==
    IF resp.status = "request_error"
    THEN [raised |-> FALSE, value |-> None,
          shown |-> <<"error: Error getting embedding">>]
    ELSE IF resp.status = "no_key"
    THEN [raised |-> FALSE, value |-> None,
          shown |-> <<"error: Unexpected response format",
                      "error: Response content">>]
    ELSE IF resp.status = "not_object"
    THEN [raised |-> TRUE, value |-> Unbound, shown |-> <<>>]
    ELSE [raised |-> FALSE, value |-> resp.value, shown |-> <<>>]

\* A script run is over: before the first press, after the handler ran to
\* its end, or after an exception left it.
Over == pc \in {"idle", "done", "plot_raised", "crashed"}

\* Line 150: the button is pressed and the script runs anew; nothing of the
\* previous run's local state is kept.
Press ==
    /\ Over
    /\ openFigs < MaxOpenFigs
    /\ embedding1' = Unbound
    /\ embedding2' = Unbound
    /\ fig' = NoFig
    /\ plotOut' = Uncomputed
    /\ cos_sim' = Uncomputed
    /\ euc_dist' = Uncomputed
    /\ displayed' = <<>>
    /\ called' = <<>>
    /\ pc' = "get1"
    /\ UNCHANGED openFigs

\* Line 152: the first request. An exception leaves main.
GetEmbedding1(resp) ==
    /\ pc = "get1"
    /\ embedding1' = get_embedding(resp).value
    /\ displayed' = displayed \o get_embedding(resp).shown
    /\ pc' = IF get_embedding(resp).raised THEN "crashed" ELSE "get2"
    /\ UNCHANGED <<embedding2, fig, openFigs, plotOut, cos_sim, euc_dist, called>>

\* Line 153: the second request, made whatever the first returned.
GetEmbedding2(resp) ==
    /\ pc = "get2"
    /\ embedding2' = get_embedding(resp).value
    /\ displayed' = displayed \o get_embedding(resp).shown
    /\ pc' = IF get_embedding(resp).raised THEN "crashed" ELSE "guard"
    /\ UNCHANGED <<embedding1, fig, openFigs, plotOut, cos_sim, euc_dist, called>>

\* Lines 155-157: `if embedding1 and embedding2`, then the first subheader.
\* A falsy result skips the whole body.
Guard ==
    /\ pc = "guard"
    /\ IF Truthy(embedding1) /\ Truthy(embedding2)
       THEN /\ displayed' = Append(displayed, "subheader: Embeddings Visualization")
            /\ pc' = "subplots"
       ELSE /\ displayed' = displayed
            /\ pc' = "done"
    /\ UNCHANGED <<embedding1, embedding2, fig, openFigs, plotOut, cos_sim,
                   euc_dist, called>>

\* The handler with the st.pyplot call left out.
Pyplot_not_displayed ==
    /\ pc = "plot_returned"
    /\ pc' = "cosine"
    /\ UNCHANGED <<embedding1, embedding2, fig, openFigs, plotOut, cos_sim,
                   euc_dist, displayed, called>>

\* Line 159: st.pyplot(fig).
Pyplot ==
    /\ pc = "plot_returned"
    /\ displayed' = Append(displayed, "figure")
    /\ pc' = "cosine"
    /\ UNCHANGED <<embedding1, embedding2, fig, openFigs, plotOut, cos_sim,
                   euc_dist, called>>

\* Lines 161-162: the second subheader and cosine_similarity; an exception
\* leaves main.
CosSim ==
    /\ pc = "cosine"
    /\ displayed' = Append(displayed, "subheader: Similarity Metrics")
    /\ called' = Append(called, "cosine_similarity")
    /\ cos_sim' = cosine_similarity(embedding1.vec, embedding2.vec)
    /\ pc' = IF cos_sim'.kind = "raise" THEN "crashed" ELSE "euclidean"
    /\ UNCHANGED <<embedding1, embedding2, fig, openFigs, plotOut, euc_dist>>

\* Line 163; an exception leaves main.
EucDist ==
    /\ pc = "euclidean"
    /\ called' = Append(called, "euclidean_distance")
    /\ euc_dist' = euclidean_distance(embedding1.vec, embedding2.vec)
    /\ pc' = IF euc_dist'.kind = "raise" THEN "crashed" ELSE "metrics"
    /\ UNCHANGED <<embedding1, embedding2, fig, openFigs, plotOut, cos_sim,
                   displayed>>

\* Lines 165-169: the two st.metric calls.
Metrics ==
    /\ pc = "metrics"
    /\ displayed' = displayed \o <<"metric: Cosine Similarity",
                                     "metric: Euclidean Distance">>
    /\ pc' = "values"
    /\ UNCHANGED <<embedding1, embedding2, fig, openFigs, plotOut, cos_sim,
                   euc_dist, called>>

\* Lines 171-179: the rule, the third subheader and the raw values.
EmbeddingValues ==
    /\ pc = "values"
    /\ displayed' = displayed \o <<"markdown: ---", "subheader: Embedding Values",
                                     "json: Embedding 1", "json: Embedding 2">>
    /\ pc' = "done"
    /\ UNCHANGED <<embedding1, embedding2, fig, openFigs, plotOut, cos_sim,
                   euc_dist, called>>

Next ==
    \/ Press
    \/ \E resp \in Responses : GetEmbedding1(resp)
    \/ \E resp \in Responses : GetEmbedding2(resp)
    \/ Guard
    \/ PlotStep
    \/ Pyplot
    \/ CosSim
    \/ EucDist
    \/ Metrics
    \/ EmbeddingValues

Spec == Init /\ [][Next]_vars

(***************************************************************************)
(* The core on its own: each function applied to one pair of vectors       *)
(***************************************************************************)
InitCore ==
    /\ embedding1 \in {List(v) : v \in Vectors}
    /\ embedding2 \in {List(v) : v \in Vectors}
    /\ pc = "eval_cosine"
    /\ openFigs = 0
    /\ Fresh

\* cosine_similarity(embedding1, embedding2), lines 100-101; the outcome is
\* recorded, value or exception.
EvalCosine ==
    /\ pc = "eval_cosine"
    /\ called' = Append(called, "cosine_similarity")
    /\ cos_sim' = cosine_similarity(embedding1.vec, embedding2.vec)
    /\ pc' = "eval_euclidean"
    /\ UNCHANGED <<embedding1, embedding2, fig, openFigs, plotOut, euc_dist,
                   displayed>>

\* euclidean_distance(embedding1, embedding2), lines 103-104.
EvalEuclidean ==
    /\ pc = "eval_euclidean"
    /\ called' = Append(called, "euclidean_distance")
    /\ euc_dist' = euclidean_distance(embedding1.vec, embedding2.vec)
    /\ pc' = "subplots"
    /\ UNCHANGED <<embedding1, embedding2, fig, openFigs, plotOut, cos_sim,
                   displayed>>

NextCore ==
    \/ EvalCosine
    \/ EvalEuclidean
    \/ PlotStep

SpecCore == InitCore /\ [][NextCore]_vars
(***************************************************************************)
(* Properties                                                              *)
(***************************************************************************)
v1 == embedding1.vec

v2 == embedding2.vec

D == Len(v1)

EqualLength == Len(v1) = Len(v2)

AllZero(v) == \A i \in 1 .. Len(v) : v[i] = 0

Computed(o) == o.kind # "uncomputed"

Raised(o) == o.kind = "raise"

Returned(o) == o.kind = "value"

\* C1: for lists of different lengths, cosine_similarity, euclidean_distance
\* and plot_embeddings each end in an exception: none returns a number or a
\* figure.
C1_MismatchAlwaysRaises ==
    ~EqualLength =>
        /\ Computed(cos_sim) => Raised(cos_sim)
        /\ Computed(euc_dist) => Raised(euc_dist)
        /\ Computed(plotOut) => Raised(plotOut)

\* C2: for equal-length lists of length >= 1 of which one is all zeros,
\* cosine_similarity raises and never returns a value (nan included), while
\* euclidean_distance returns normally.
C2_ZeroVectorRaises ==
    (EqualLength /\ D >= 1 /\ (AllZero(v1) \/ AllZero(v2))) =>
        /\ Computed(cos_sim) => Raised(cos_sim)
        /\ Computed(euc_dist) => Returned(euc_dist)

\* C3: when plot_embeddings raises, nothing has been drawn on either panel.
C3_RaisesBeforeDrawing ==
    pc = "plot_raised" =>
        /\ fig.ax1 = <<>>
        /\ ~fig.ax1_legend
        /\ fig.ax2_points = <<>>

\* C4: main calls a core function only when both get_embedding results are
\* lists, non-empty and of equal length.
C4_CoreCalledOnlyOnValidPair ==
    called # <<>> =>
        /\ embedding1.type = "list" /\ embedding2.type = "list"
        /\ Len(v1) > 0 /\ Len(v2) > 0
        /\ EqualLength

\* C5: between requests the process-wide state the core reaches, pyplot's
\* registry of open figures, is what it was before the first request.
C5_NoStateAcrossRequests == Over => openFigs = 0

\* C6: for equal-length lists of length >= 1, euclidean_distance returns
\* sqrt(n) with n >= 0, and n = 0 exactly when the lists are equal
\* element by element.
C6_EuclideanZeroIffEqual ==
    (EqualLength /\ D >= 1 /\ Computed(euc_dist)) =>
        /\ Returned(euc_dist)
        /\ euc_dist.form = "sqrt(n)"
        /\ euc_dist.n >= 0
        /\ euc_dist.n = 0 <=> (\A i \in 1 .. D : v1[i] = v2[i])

C6_Witness ==
    /\ v1 = <<1, 2>>
    /\ v2 = <<1, 2>>
    /\ euc_dist = Value("sqrt(n)", 0, 1)

\* v is k * u for a positive integer k.
PositiveMultiple(u, v) ==
    \E k \in 1 .. MaxVal + 1 : \A i \in 1 .. Len(u) : v[i] = k * u[i]

\* C7: for equal-length lists with a non-zero entry each, cosine_similarity
\* returns n / sqrt(d2) with n^2 <= d2, that is a value in [-1, 1], and the
\* value is 1 (n > 0 and n^2 = d2) when the second list is a positive
\* multiple of the first.
C7_CosineRange ==
    (EqualLength /\ ~AllZero(v1) /\ ~AllZero(v2) /\ Computed(cos_sim)) =>
        /\ Returned(cos_sim)
        /\ cos_sim.form = "n/sqrt(d2)"
        /\ cos_sim.d2 > 0
        /\ cos_sim.n * cos_sim.n <= cos_sim.d2
        /\ PositiveMultiple(v1, v2) =>
               (cos_sim.n > 0 /\ cos_sim.n * cos_sim.n = cos_sim.d2)

C7_Witness ==
    /\ v1 = <<1, 1>>
    /\ v2 = <<2, 2>>
    /\ cos_sim = Value("n/sqrt(d2)", 4, 16)

\* C8: both metrics give the same outcome, value or exception, with the
\* arguments exchanged.
C8_Symmetric ==
    /\ Computed(cos_sim) => cos_sim = cosine_similarity(v2, v1)
    /\ Computed(euc_dist) => euc_dist = euclidean_distance(v2, v1)

C8_Witness ==
    /\ v1 = <<2>>
    /\ v2 = <<1, 2>>
    /\ Raised(cos_sim)
    /\ euc_dist = Value("sqrt(n)", 1, 1)

\* The smallest and the largest entry of the two lists together.
Entries == {v1[i] : i \in 1 .. Len(v1)} \cup {v2[i] : i \in 1 .. Len(v2)}

Lowest == CHOOSE x \in Entries : \A y \in Entries : x <= y

Highest == CHOOSE x \in Entries : \A y \in Entries : x >= y

\* What C9 says besides the limits: exactly D points (v1[i], v2[i]), each
\* within both limits, and a reference line between the two corners.
ScatterContent ==
    /\ Len(fig.ax2_points) = D
    /\ \A i \in 1 .. D :
          /\ fig.ax2_points[i] = <<v1[i], v2[i]>>
          /\ fig.xlim[1] <= LimScale * v1[i] /\ LimScale * v1[i] <= fig.xlim[2]
          /\ fig.ylim[1] <= LimScale * v2[i] /\ LimScale * v2[i] <= fig.ylim[2]
    /\ fig.ax2_lines = <<[from |-> <<Lowest, Lowest>>, to |-> <<Highest, Highest>>]>>

\* C9 as claimed: a returned figure has x- and y-limits [min_val, max_val].
C9_LimitsAreMinMax ==
    pc = "plot_returned" =>
        /\ fig.xlim = <<LimScale * Lowest, LimScale * Highest>>
        /\ fig.ylim = <<LimScale * Lowest, LimScale * Highest>>
        /\ ScatterContent

\* C9, amended: a returned figure has x- and y-limits [min_val, max_val]
\* when min_val < max_val; when all entries are one value m, both limits are
\* [m - 0.05 |m|, m + 0.05 |m|] ([-0.05, 0.05] for m = 0). In both cases the
\* D points lie within the limits and the reference line joins
\* (min_val, min_val) and (max_val, max_val).
C9_LimitsAreMinMaxUnlessSingular ==
    pc = "plot_returned" =>
        /\ Lowest < Highest =>
              /\ fig.xlim = <<LimScale * Lowest, LimScale * Highest>>
              /\ fig.ylim = <<LimScale * Lowest, LimScale * Highest>>
        /\ Lowest = Highest =>
              LET w == IF Lowest = 0 THEN 1 ELSE Abs(Lowest)
              IN /\ fig.xlim = <<LimScale * Lowest - w, LimScale * Lowest + w>>
                 /\ fig.ylim = <<LimScale * Lowest - w, LimScale * Lowest + w>>
        /\ ScatterContent

C9_Witness ==
    /\ pc = "plot_returned"
    /\ v1 = <<-1, 2>>
    /\ v2 = <<1, 0>>
    /\ fig.xlim = <<-20, 40>>
    /\ fig.ylim = <<-20, 40>>
    /\ Len(fig.ax2_points) = 2

MetricCalled ==
    \E i \in 1 .. Len(called) :
        called[i] \in {"cosine_similarity", "euclidean_distance"}

Shown(what) == \E i \in 1 .. Len(displayed) : displayed[i] = what

FigureDisplayed == Shown("figure")

MetricDisplayed ==
    Shown("metric: Cosine Similarity") \/ Shown("metric: Euclidean Distance")

\* C10: within one press, a metric is called only after plot_embeddings has
\* returned its figure and the figure has been displayed; when
\* plot_embeddings raises, neither metric is computed or displayed, and no
\* figure is displayed.
C10_RenderBeforeEvaluate ==
    /\ (MetricCalled \/ Computed(cos_sim) \/ Computed(euc_dist)) =>
           (Returned(plotOut) /\ FigureDisplayed)
    /\ pc \in {"plot_raised", "crashed"} =>
           (MetricCalled => FigureDisplayed)
    /\ pc = "plot_raised" =>
           /\ ~MetricCalled
           /\ ~Computed(cos_sim) /\ ~Computed(euc_dist)
           /\ ~FigureDisplayed /\ ~MetricDisplayed

C10_Witness ==
    /\ pc = "metrics"
    /\ called = <<"plot_embeddings", "cosine_similarity", "euclidean_distance">>
    /\ displayed = <<"subheader: Embeddings Visualization", "figure",
                     "subheader: Similarity Metrics">>
    /\ Returned(cos_sim) /\ Returned(euc_dist)
====
